---- MODULE Spec2Model ----
(***************************************************************************)
(* The Streamlit front end app.py: a form (topic, breadth, depth), one     *)
(* blocking subprocess.run of the research script with the three fields on *)
(* standard input, and the display of output.md.                           *)
(*                                                                         *)
(* Text is a sequence of tokens.  A token is either a control character    *)
(* ("\n", "\r"), a decimal digit, an undecodable byte, or a chunk of text  *)
(* that holds none of these.  One session is one browser session running   *)
(* the script; the file output.md is shared by all of them.                *)
(***************************************************************************)
EXTENDS Integers, Sequences, FiniteSets, TLC

VARIABLES
    form,        \* per session: the widgets' values the script run reads
    pc,          \* per session: where the script run is
    outcome,     \* per session: how the latest script run ended
    fault,       \* per session: the exception that left the script uncaught
    child_stdin, \* per session: the text on the running child's stdin
    process,     \* per session: the CompletedProcess of subprocess.run
    display,     \* per session: the elements the script run has put on the page
    file,        \* output.md beside app.py
    spawned,     \* per session: children spawned for the latest submission
    wrote,       \* per session: the latest submission's child wrote output.md
    checked,     \* per session: the latest submission called exists()
    readDone,    \* per session: the latest submission called read_text()
    reportFrom   \* per session: whose child wrote the report on display

vars == <<form, pc, outcome, fault, child_stdin, process, display, file,
          spawned, wrote, checked, readDone, reportFrom>>

Sessions == DOMAIN pc

----------------------------------------------------------------------------
(* Bounds of the model *)

MaxTopicLen == 1
MaxFileLen == 1

(* Program constants: the sliders of the form *)

BreadthMin == 1
BreadthMax == 10
BreadthDefault == 4
DepthMin == 1
DepthMax == 5
DepthDefault == 2

----------------------------------------------------------------------------
(* Text *)

NL == "\n"
CR == "\r"
BadByte == "0xFF"

DefaultTopic == <<"Education in India">>

TopicTokens == {"Education in India", NL}

Topics == UNION {[1..n -> TopicTokens] : n \in 0..MaxTopicLen}

FileBytes == {"x", CR, NL, BadByte}

Contents == UNION {[1..n -> FileBytes] : n \in 0..MaxFileLen}

Digits == <<"0", "1", "2", "3", "4", "5", "6", "7", "8", "9">>

(* str(n) of a natural number, as the f-string formats it *)
RECURSIVE Str(_)
Str(n) ==
    IF n < 10 THEN <<Digits[n + 1]>>
    ELSE Str(n \div 10) \o <<Digits[(n % 10) + 1]>>

(* the f-string with breadth and depth in each other's place *)
CliInputSwapped(topic, breadth, depth) ==
    topic \o <<NL>> \o Str(depth) \o <<NL>> \o Str(breadth) \o <<NL>>

(* cli_input = f"{topic}\n{breadth}\n{depth}\n" *)
CliInput(topic, breadth, depth) ==
    topic \o <<NL>> \o Str(breadth) \o <<NL>> \o Str(depth) \o <<NL>>

(* the universal-newlines translation of a text-mode read *)
RECURSIVE UniversalNewlines(_)
UniversalNewlines(b) ==
    IF b = <<>> THEN <<>>
    ELSE IF Head(b) = CR
         THEN <<NL>> \o UniversalNewlines(
                  IF Len(b) >= 2 /\ b[2] = NL THEN Tail(Tail(b)) ELSE Tail(b))
         ELSE <<Head(b)>> \o UniversalNewlines(Tail(b))

(* whether bytes decode as UTF-8 *)
ValidUtf8(b) == \A i \in 1..Len(b) : b[i] # BadByte

(* output_md_path.read_text(encoding="utf-8") of decodable bytes *)
ReadText(b) == UniversalNewlines(b)

----------------------------------------------------------------------------
(* The page *)

El(kind, body) == [kind |-> kind, body |-> body, file_name |-> ""]

InfoStarting == El("info", <<"Starting research process">>)
ErrorTimeout == El("error", <<"Process timed out">>)
ErrorNotFound == El("error", <<"output.md file not found">>)
SubheaderCli == El("subheader", <<"CLI Output">>)
SuccessReport == El("success", <<"Report generated successfully">>)
Divider == El("markdown", <<"---">>)
SubheaderReport == El("subheader", <<"Generated Report">>)
Report(content) == El("report", content)
Download(content) ==
    [kind |-> "download", body |-> content, file_name |-> "output.md"]

(* st.code(x) under "if x:" *)
CodeIf(text) == IF text # <<>> THEN <<El("code", text)>> ELSE <<>>

(* lines 42-46: the subheader and the two captured streams *)
CliOutput(p) == <<SubheaderCli>> \o CodeIf(p.stdout) \o CodeIf(p.stderr)

(* lines 50-59: the report and its download button *)
ReportView(content) ==
    <<SuccessReport, Divider, SubheaderReport, Report(content),
      Download(content)>>

----------------------------------------------------------------------------
(* Values *)

NoProcess == [returncode |-> -1, stdout |-> <<>>, stderr |-> <<>>]

Completed(rc, out, err) == [returncode |-> rc, stdout |-> out, stderr |-> err]

ReturnCodes == {0, 1}
Stdouts == {<<>>, <<"out">>}
Stderrs == {<<>>, <<"err">>}

Absent == [exists |-> FALSE, bytes |-> <<>>, writer |-> 0]

Written(b, s) == [exists |-> TRUE, bytes |-> b, writer |-> s]

DefaultForm ==
    [topic |-> DefaultTopic, breadth |-> BreadthDefault, depth |-> DepthDefault]

InitFor(S) ==
    /\ form = [s \in S |-> DefaultForm]
    /\ pc = [s \in S |-> "Idle"]
    /\ outcome = [s \in S |-> "None"]
    /\ fault = [s \in S |-> "None"]
    /\ child_stdin = [s \in S |-> <<>>]
    /\ process = [s \in S |-> NoProcess]
    /\ display = [s \in S |-> <<>>]
    /\ file = Absent
    /\ spawned = [s \in S |-> 0]
    /\ wrote = [s \in S |-> FALSE]
    /\ checked = [s \in S |-> FALSE]
    /\ readDone = [s \in S |-> FALSE]
    /\ reportFrom = [s \in S |-> 0]

Init == InitFor({1})

InitConc == InitFor({1, 2})

----------------------------------------------------------------------------
(* The form: the widgets keep their values between script runs *)

SetTopic(s, t) ==
    /\ pc[s] = "Idle"
    /\ form' = [form EXCEPT ![s].topic = t]
    /\ UNCHANGED <<pc, outcome, fault, child_stdin, process, display, file,
                   spawned, wrote, checked, readDone, reportFrom>>

SetBreadth(s, b) ==
    /\ pc[s] = "Idle"
    /\ form' = [form EXCEPT ![s].breadth = b]
    /\ UNCHANGED <<pc, outcome, fault, child_stdin, process, display, file,
                   spawned, wrote, checked, readDone, reportFrom>>

SetDepth(s, d) ==
    /\ pc[s] = "Idle"
    /\ form' = [form EXCEPT ![s].depth = d]
    /\ UNCHANGED <<pc, outcome, fault, child_stdin, process, display, file,
                   spawned, wrote, checked, readDone, reportFrom>>

----------------------------------------------------------------------------
(* One script run with submit = True *)

(* the script starts over: the page holds what this run puts on it *)
BeginRun(s) ==
    /\ pc[s] = "Idle"
    /\ display' = [display EXCEPT ![s] = <<InfoStarting>>]
    /\ process' = [process EXCEPT ![s] = NoProcess]
    /\ wrote' = [wrote EXCEPT ![s] = FALSE]
    /\ checked' = [checked EXCEPT ![s] = FALSE]
    /\ readDone' = [readDone EXCEPT ![s] = FALSE]
    /\ reportFrom' = [reportFrom EXCEPT ![s] = 0]

(* lines 26-38: subprocess.run starts the child and waits for it *)
Submit(s) ==
    /\ BeginRun(s)
    /\ child_stdin' = [child_stdin EXCEPT ![s] =
           CliInput(form[s].topic, form[s].breadth, form[s].depth)]
    /\ spawned' = [spawned EXCEPT ![s] = 1]
    /\ outcome' = [outcome EXCEPT ![s] = "None"]
    /\ fault' = [fault EXCEPT ![s] = "None"]
    /\ pc' = [pc EXCEPT ![s] = "Running"]
    /\ UNCHANGED <<form, file>>

(* lines 26-38: subprocess.run raises OSError, which no handler catches *)
SubmitSpawnError(s) ==
    /\ BeginRun(s)
    /\ child_stdin' = [child_stdin EXCEPT ![s] = <<>>]
    /\ spawned' = [spawned EXCEPT ![s] = 0]
    /\ fault' = [fault EXCEPT ![s] = "OSError"]
    /\ outcome' = [outcome EXCEPT ![s] = "Faulted"]
    /\ pc' = [pc EXCEPT ![s] = "Idle"]
    /\ UNCHANGED <<form, file>>

(* the research script writes its report *)
ChildWrite(s, b) ==
    /\ pc[s] = "Running"
    /\ file' = Written(b, s)
    /\ wrote' = [wrote EXCEPT ![s] = TRUE]
    /\ UNCHANGED <<form, pc, outcome, fault, child_stdin, process, display,
                   spawned, checked, readDone, reportFrom>>

(* lines 31-38: the child exits within the timeout; run returns *)
ChildExit(s, rc, out, err) ==
    /\ pc[s] = "Running"
    /\ process' = [process EXCEPT ![s] = Completed(rc, out, err)]
    /\ child_stdin' = [child_stdin EXCEPT ![s] = <<>>]
    /\ pc' = [pc EXCEPT ![s] = "Returned"]
    /\ UNCHANGED <<form, outcome, fault, display, file, spawned, wrote,
                   checked, readDone, reportFrom>>

(* the except branch falling through to the exists() check of line 48 *)
TimeoutExpiredFallsThrough(s) ==
    /\ pc[s] = "Running"
    /\ checked' = [checked EXCEPT ![s] = TRUE]
    /\ display' = [display EXCEPT ![s] =
           @ \o <<ErrorTimeout>>
             \o (IF file.exists THEN <<SuccessReport>> ELSE <<ErrorNotFound>>)]
    /\ child_stdin' = [child_stdin EXCEPT ![s] = <<>>]
    /\ outcome' = [outcome EXCEPT ![s] = "TimedOut"]
    /\ pc' = [pc EXCEPT ![s] = "Idle"]
    /\ UNCHANGED <<form, fault, process, file, spawned, wrote, readDone,
                   reportFrom>>

(* the except branch starting the child again *)
TimeoutExpiredRetries(s) ==
    /\ pc[s] = "Running"
    /\ spawned' = [spawned EXCEPT ![s] = @ + 1]
    /\ display' = [display EXCEPT ![s] = @ \o <<ErrorTimeout>>]
    /\ UNCHANGED <<form, pc, outcome, fault, child_stdin, process, file,
                   wrote, checked, readDone, reportFrom>>

(* lines 39-40: run kills the child and raises TimeoutExpired *)
TimeoutExpired(s) ==
    /\ pc[s] = "Running"
    /\ display' = [display EXCEPT ![s] = @ \o <<ErrorTimeout>>]
    /\ child_stdin' = [child_stdin EXCEPT ![s] = <<>>]
    /\ outcome' = [outcome EXCEPT ![s] = "TimedOut"]
    /\ pc' = [pc EXCEPT ![s] = "Idle"]
    /\ UNCHANGED <<form, fault, process, file, spawned, wrote, checked,
                   readDone, reportFrom>>

(* lines 41-48 and 60-61: the captured streams, then exists() *)
ShowCliOutput(s) ==
    /\ pc[s] = "Returned"
    /\ checked' = [checked EXCEPT ![s] = TRUE]
    /\ IF file.exists
       THEN /\ display' = [display EXCEPT ![s] = @ \o CliOutput(process[s])]
            /\ pc' = [pc EXCEPT ![s] = "Reading"]
            /\ UNCHANGED outcome
       ELSE /\ display' = [display EXCEPT ![s] =
                   @ \o CliOutput(process[s]) \o <<ErrorNotFound>>]
            /\ outcome' = [outcome EXCEPT ![s] = "SucceededWithoutArtifact"]
            /\ pc' = [pc EXCEPT ![s] = "Idle"]
    /\ UNCHANGED <<form, fault, child_stdin, process, file, spawned, wrote,
                   readDone, reportFrom>>

(* a read that shows the file only to the session whose child wrote it *)
ReadAndRenderOwnOnly(s) ==
    /\ pc[s] = "Reading"
    /\ readDone' = [readDone EXCEPT ![s] = TRUE]
    /\ pc' = [pc EXCEPT ![s] = "Idle"]
    /\ IF ~ValidUtf8(file.bytes)
       THEN /\ fault' = [fault EXCEPT ![s] = "UnicodeDecodeError"]
            /\ outcome' = [outcome EXCEPT ![s] = "Faulted"]
            /\ UNCHANGED <<display, reportFrom>>
       ELSE IF file.writer = s
       THEN /\ display' = [display EXCEPT ![s] =
                   @ \o ReportView(ReadText(file.bytes))]
            /\ reportFrom' = [reportFrom EXCEPT ![s] = file.writer]
            /\ outcome' = [outcome EXCEPT ![s] = "SucceededWithArtifact"]
            /\ UNCHANGED fault
       ELSE /\ display' = [display EXCEPT ![s] = @ \o <<ErrorNotFound>>]
            /\ outcome' = [outcome EXCEPT ![s] = "SucceededWithoutArtifact"]
            /\ UNCHANGED <<fault, reportFrom>>
    /\ UNCHANGED <<form, child_stdin, process, file, spawned, wrote, checked>>

(* lines 49-59: read_text, then the report and the download button *)
ReadAndRender(s) ==
    /\ pc[s] = "Reading"
    /\ readDone' = [readDone EXCEPT ![s] = TRUE]
    /\ pc' = [pc EXCEPT ![s] = "Idle"]
    /\ IF ValidUtf8(file.bytes)
       THEN /\ display' = [display EXCEPT ![s] =
                   @ \o ReportView(ReadText(file.bytes))]
            /\ reportFrom' = [reportFrom EXCEPT ![s] = file.writer]
            /\ outcome' = [outcome EXCEPT ![s] = "SucceededWithArtifact"]
            /\ UNCHANGED fault
       ELSE /\ fault' = [fault EXCEPT ![s] = "UnicodeDecodeError"]
            /\ outcome' = [outcome EXCEPT ![s] = "Faulted"]
            /\ UNCHANGED <<display, reportFrom>>
    /\ UNCHANGED <<form, child_stdin, process, file, spawned, wrote, checked>>

----------------------------------------------------------------------------

Next ==
    \/ \E s \in Sessions, t \in Topics : SetTopic(s, t)
    \/ \E s \in Sessions, b \in BreadthMin..BreadthMax : SetBreadth(s, b)
    \/ \E s \in Sessions, d \in DepthMin..DepthMax : SetDepth(s, d)
    \/ \E s \in Sessions : Submit(s)
    \/ \E s \in Sessions : SubmitSpawnError(s)
    \/ \E s \in Sessions, b \in Contents : ChildWrite(s, b)
    \/ \E s \in Sessions, rc \in ReturnCodes, out \in Stdouts, err \in Stderrs :
           ChildExit(s, rc, out, err)
    \/ \E s \in Sessions : TimeoutExpired(s)
    \/ \E s \in Sessions : ShowCliOutput(s)
    \/ \E s \in Sessions : ReadAndRender(s)

(* one session: the script runs of a session follow one another *)
Spec == Init /\ [][Next]_vars

(* the form is left as it stands *)
NextConc ==
    \/ \E s \in Sessions : Submit(s)
    \/ \E s \in Sessions : SubmitSpawnError(s)
    \/ \E s \in Sessions, b \in Contents : ChildWrite(s, b)
    \/ \E s \in Sessions, rc \in ReturnCodes, out \in Stdouts, err \in Stderrs :
           ChildExit(s, rc, out, err)
    \/ \E s \in Sessions : TimeoutExpired(s)
    \/ \E s \in Sessions : ShowCliOutput(s)
    \/ \E s \in Sessions : ReadAndRender(s)

(* two sessions, each with its own script run, and no order between them *)
SpecConc == InitConc /\ [][NextConc]_vars

----------------------------------------------------------------------------
(* What the page of a session shows *)

(* the bodies of the elements of kind k on a page, in order *)
Bodies(d, k) ==
    LET OfKind(e) == e.kind = k
        sel == SelectSeq(d, OfKind)
    IN  [i \in 1..Len(sel) |-> sel[i].body]

Shows(d, e) == \E i \in 1..Len(d) : d[i] = e

ShowsKind(d, k) == \E i \in 1..Len(d) : d[i].kind = k

(* the script run of s has ended after its child completed *)
EndedAfterChild(s) == pc[s] = "Idle" /\ process[s] # NoProcess

NeverSubmitted(s) == pc[s] = "Idle" /\ outcome[s] = "None"

(* the number of newline tokens of a text *)
RECURSIVE Newlines(_)
Newlines(text) ==
    IF text = <<>> THEN 0
    ELSE (IF Head(text) = NL THEN 1 ELSE 0) + Newlines(Tail(text))

(* the value of a sequence of decimal digits *)
RECURSIVE DecValue(_)
DecValue(ds) ==
    IF ds = <<>> THEN 0
    ELSE 10 * DecValue(SubSeq(ds, 1, Len(ds) - 1))
         + (CHOOSE v \in 0..9 : Digits[v + 1] = ds[Len(ds)])

(* ds is the decimal numeral of v: digits only, no leading zero *)
IsDecimalOf(ds, v) ==
    /\ Len(ds) >= 1
    /\ \A i \in 1..Len(ds) : \E k \in 1..10 : Digits[k] = ds[i]
    /\ (Len(ds) > 1 => ds[1] # "0")
    /\ DecValue(ds) = v

----------------------------------------------------------------------------
(* C1: whenever the child of a submission completes without writing        *)
(* output.md, the submission reports the artifact as missing and shows no  *)
(* report and no download button; in particular nothing an earlier run     *)
(* left at the path.  The code never removes output.md, so this fails.     *)
C1_MissingArtifactReported ==
    \A s \in Sessions :
        (EndedAfterChild(s) /\ ~wrote[s]) =>
            /\ outcome[s] = "SucceededWithoutArtifact"
            /\ Shows(display[s], ErrorNotFound)
            /\ ~ShowsKind(display[s], "report")
            /\ ~ShowsKind(display[s], "download")

(* C2: a submission whose child exceeds the timeout shows the timeout      *)
(* error after the starting notice and nothing else: no captured stream,   *)
(* no report, no download button; it calls neither exists() nor            *)
(* read_text() on output.md.                                               *)
C2_TimeoutShowsOnlyError ==
    \A s \in Sessions :
        outcome[s] = "TimedOut" =>
            /\ display[s] = <<InfoStarting, ErrorTimeout>>
            /\ ~checked[s]
            /\ ~readDone[s]

(* a timed-out submission whose child had written a report that is on disk *)
C2_Witness ==
    \E s \in Sessions :
        /\ outcome[s] = "TimedOut"
        /\ wrote[s]
        /\ file.exists
        /\ ValidUtf8(file.bytes)
        /\ file.bytes # <<>>

(* C3: no submission ends in an uncaught exception.  The code catches      *)
(* TimeoutExpired only, so this fails.                                     *)
C3_NoUncaughtFault ==
    \A s \in Sessions : fault[s] = "None" /\ outcome[s] # "Faulted"

(* C4: the text on the child's standard input is the topic, a newline, the *)
(* decimal numeral of breadth, a newline, the decimal numeral of depth, a  *)
(* newline, in that order and nothing else; the form's default values give *)
(* "Education in India\n4\n2\n".                                           *)
C4_StdinIsTopicBreadthDepth ==
    \A s \in Sessions :
        pc[s] = "Running" =>
            LET p == child_stdin[s]
                n == Len(form[s].topic)
            IN  /\ form[s].breadth \in BreadthMin..BreadthMax
                /\ form[s].depth \in DepthMin..DepthMax
                /\ \E k \in 1..Len(p), m \in 1..Len(p) :
                       /\ Len(p) = n + k + m + 3
                       /\ SubSeq(p, 1, n) = form[s].topic
                       /\ p[n + 1] = NL
                       /\ IsDecimalOf(SubSeq(p, n + 2, n + k + 1),
                                      form[s].breadth)
                       /\ p[n + k + 2] = NL
                       /\ IsDecimalOf(SubSeq(p, n + k + 3, n + k + m + 2),
                                      form[s].depth)
                       /\ p[n + k + m + 3] = NL
                /\ (form[s] = DefaultForm =>
                       p = <<"Education in India", NL, "4", NL, "2", NL>>)

(* a child running on a two-digit breadth and a topic that is not the default *)
C4_Witness ==
    \E s \in Sessions :
        /\ pc[s] = "Running"
        /\ form[s].breadth = BreadthMax
        /\ form[s].depth = DepthMax
        /\ form[s].topic # DefaultTopic
        /\ Len(child_stdin[s]) = Len(form[s].topic) + 6

(* C5: the text on the child's standard input is exactly three             *)
(* newline-terminated lines, whatever the topic.  The topic is neither     *)
(* checked nor escaped, so a topic holding a newline breaks this.          *)
C5_ExactlyThreeLines ==
    \A s \in Sessions :
        pc[s] = "Running" =>
            /\ child_stdin[s] # <<>>
            /\ child_stdin[s][Len(child_stdin[s])] = NL
            /\ Newlines(child_stdin[s]) = 3

(* C6: when the child completes within the timeout and has written valid   *)
(* UTF-8 text X to output.md, the report shown and the download offered    *)
(* (file name output.md) are exactly X, whatever the exit status.  The     *)
(* text-mode read translates "\r" and "\r\n" to "\n", so this fails.       *)
C6_ReportIsWhatChildWrote ==
    \A s \in Sessions :
        (/\ EndedAfterChild(s)
         /\ wrote[s]
         /\ file.exists
         /\ file.writer = s
         /\ ValidUtf8(file.bytes)) =>
            /\ outcome[s] = "SucceededWithArtifact"
            /\ Bodies(display[s], "report") = <<file.bytes>>
            /\ Bodies(display[s], "download") = <<file.bytes>>
            /\ \A i \in 1..Len(display[s]) :
                   display[s][i].kind = "download" =>
                       display[s][i].file_name = "output.md"

(* C7 as stated: every submission has spawned exactly one child, and a     *)
(* session that never submitted none.  A submission whose spawn fails has  *)
(* spawned none.                                                           *)
C7_ExactlyOneChildPerSubmission ==
    \A s \in Sessions :
        /\ NeverSubmitted(s) => spawned[s] = 0
        /\ ~NeverSubmitted(s) => spawned[s] = 1

(* C7 as amended: a submission spawns at most one child: exactly one       *)
(* unless the spawn itself fails with OSError, and then none; no outcome   *)
(* (timeout, non-zero exit, missing artifact) spawns another; a session    *)
(* that never submitted has spawned none.                                  *)
C7_AtMostOneChildNoRetry ==
    \A s \in Sessions :
        /\ spawned[s] \in {0, 1}
        /\ NeverSubmitted(s) => spawned[s] = 0
        /\ fault[s] = "OSError" => spawned[s] = 0
        /\ (~NeverSubmitted(s) /\ fault[s] # "OSError") => spawned[s] = 1

(* a submission that timed out, and one whose child failed and left no file *)
C7_Witness ==
    \E s \in Sessions :
        /\ spawned[s] = 1
        /\ pc[s] = "Idle"
        /\ \/ outcome[s] = "TimedOut"
           \/ /\ outcome[s] = "SucceededWithoutArtifact"
              /\ process[s].returncode # 0

(* C8: once a submission has been handled, the captured streams and the    *)
(* report on the page are those of that submission: the streams are the    *)
(* ones its child produced, each at most once, and a report on the page    *)
(* was written by its child.  A report left by an earlier run is shown     *)
(* again (C1), so this fails.                                              *)
C8_DisplayIsLatestRunOnly ==
    \A s \in Sessions :
        EndedAfterChild(s) =>
            /\ Bodies(display[s], "code") =
                   Bodies(CodeIf(process[s].stdout)
                          \o CodeIf(process[s].stderr), "code")
            /\ Len(Bodies(display[s], "report")) <= 1
            /\ ShowsKind(display[s], "report") =>
                   (wrote[s] /\ reportFrom[s] = s)

(* C9: a submission ends in exactly one of the three outcomes and in no    *)
(* other; while it runs it has none.  An uncaught exception (C3) is a      *)
(* fourth outcome, so this fails.                                          *)
C9_OnlyThreeOutcomes ==
    \A s \in Sessions :
        /\ pc[s] # "Idle" => outcome[s] = "None"
        /\ pc[s] = "Idle" =>
               outcome[s] \in {"None", "SucceededWithArtifact",
                               "SucceededWithoutArtifact", "TimedOut"}

(* C10: output.md is one path shared by all sessions and read without any  *)
(* lock or ownership check: a script run that reaches read_text() shows    *)
(* the decoded bytes the file holds at that moment, whichever session's    *)
(* child wrote them last.                                                  *)
C10_ReadTakesSharedFile ==
    [][\A s \in Sessions :
          (pc[s] = "Reading" /\ pc'[s] = "Idle" /\ ValidUtf8(file.bytes)) =>
              /\ outcome'[s] = "SucceededWithArtifact"
              /\ reportFrom'[s] = file.writer
              /\ Bodies(display'[s], "report") = <<UniversalNewlines(file.bytes)>>
      ]_vars

(* two runs in flight together: the child of s wrote its report, the child *)
(* of t overwrote it, and s shows as its own the report t's child wrote    *)
C10_Witness ==
    \E s \in Sessions, t \in Sessions :
        /\ s # t
        /\ outcome[s] = "SucceededWithArtifact"
        /\ wrote[s]
        /\ reportFrom[s] = t
        /\ pc[t] = "Running"
        /\ wrote[t]
        /\ file.writer = t
        /\ Bodies(display[s], "report") = <<file.bytes>>

====
